---- MODULE Spec2Model ----
(***************************************************************************)
(* A model of scripts/mammogram_analysis.py: decrypt_file, the detection   *)
(* filter of analyze_mammogram, and main's run controller.                 *)
(*                                                                         *)
(* Byte strings are sequences over 0..255.  Scores are float32 values in   *)
(* hundredths (80 stands for 0.8); box coordinates are whole pixels.       *)
(***************************************************************************)
EXTENDS Integers, Sequences, FiniteSets, TLC

VARIABLES
    pc,          \* position of the run: which statement of main is next
    ENCRYPTION_KEY,  \* MAMMOGRAM_ENCRYPTION_KEY as read from the environment
    inputFile,   \* content of the file at --input (NoFile when absent)
    outputFile,  \* content of the file at --output (NoFile when absent)
    source,      \* ghost: how the environment produced inputFile
    ioFault,     \* ghost: an open()/write() of decrypt_file failed
    decryptRet,  \* what decrypt_file returned: "none" before the call
    detOut,      \* scores, boxes returned by im_detect
    order,       \* the descending-score order nms() processes dets in
    results,     \* return value of analyze_mammogram
    raised,      \* the exception in flight inside main's try block
    stdout,      \* the JSON records printed by main, in order
    calls,       \* ghost: the calls main has made so far
    exitCode     \* process exit status: "none" while running, then "0" or "1"

vars == << pc, ENCRYPTION_KEY, inputFile, outputFile, source, ioFault, decryptRet,
           detOut, order, results, raised, stdout, calls, exitCode >>

----------------------------------------------------------------------------
(* Bounds of the model *)

\* longest plaintext the environment encrypts
MaxPlainLen == 33
\* most cipher blocks in a file whose padding is not well formed
MaxRawBlocks == 2
\* most proposals im_detect returns
MaxBoxes == 3
\* most proposals im_detect returns within a run of main
MaxMainBoxes == 2

----------------------------------------------------------------------------
(* Byte strings *)

\* a path of the file system: absent, or present with its content
NoFile == [present |-> FALSE, bytes |-> << >>]

File(b) == [present |-> TRUE, bytes |-> b]

Min(a, b) == IF a <= b THEN a ELSE b

Max(a, b) == IF a >= b THEN a ELSE b

\* bitwise exclusive or of two bytes
RECURSIVE BitXor(_, _)
BitXor(a, b) ==
    IF a = 0 THEN b
    ELSE IF b = 0 THEN a
    ELSE ((a + b) % 2) + 2 * BitXor(a \div 2, b \div 2)

XorBytes(s, t) == [i \in 1..Len(s) |-> BitXor(s[i], t[i])]

\* Python's s[:stop] for any integer stop: a negative stop counts from the end
PySliceTo(s, stop) ==
    LET n == Len(s)
        e == IF stop < 0 THEN Max(n + stop, 0) ELSE Min(stop, n)
    IN  SubSeq(s, 1, e)

\* Python's s[start:] for a start >= 0
PySliceFrom(s, start) == SubSeq(s, Min(start, Len(s)) + 1, Len(s))

----------------------------------------------------------------------------
(* The cipher.  AES itself is a library; it is modelled as a keyed         *)
(* permutation of 16-byte blocks, chained in CBC mode.                     *)

IV_LENGTH == 16

\* AES.block_size: the IV of CBC mode is one block
BLOCK_SIZE == IV_LENGTH

\* MAMMOGRAM_ENCRYPTION_KEY unset (or empty): falsy at line 44
NoKey == ""

\* a value bytes.fromhex rejects
BadHexKey == "zz"

\* the well-formed hex keys in use
HexKeys == {"25", "c8"}

\* bytes.fromhex(ENCRYPTION_KEY): the key is the byte mixed into every block
FromHex(h) == IF h = "25" THEN 37 ELSE 200

\* block permutation: reverse the block, then an affine bijection per byte
BlockEncrypt(k, b) ==
    [i \in 1..BLOCK_SIZE |-> (5 * BitXor(b[BLOCK_SIZE + 1 - i], k) + k) % 256]

\* inverse of BlockEncrypt (5 * 205 = 1 mod 256)
BlockDecrypt(k, c) ==
    [i \in 1..BLOCK_SIZE |->
        BitXor((205 * (c[BLOCK_SIZE + 1 - i] + 256 - k)) % 256, k)]

NthBlock(s, j) == SubSeq(s, (j - 1) * BLOCK_SIZE + 1, j * BLOCK_SIZE)

\* CBC encryption of a whole number of blocks
RECURSIVE CbcEncrypt(_, _, _)
CbcEncrypt(k, prev, p) ==
    IF Len(p) = 0 THEN << >>
    ELSE LET c == BlockEncrypt(k, XorBytes(NthBlock(p, 1), prev))
         IN  c \o CbcEncrypt(k, c, PySliceFrom(p, BLOCK_SIZE))

\* cipher.decrypt(encrypted_data) in CBC mode, for a whole number of blocks
RECURSIVE CbcDecrypt(_, _, _)
CbcDecrypt(k, prev, c) ==
    IF Len(c) = 0 THEN << >>
    ELSE LET b == NthBlock(c, 1)
         IN  XorBytes(BlockDecrypt(k, b), prev)
                 \o CbcDecrypt(k, b, PySliceFrom(c, BLOCK_SIZE))

\* PKCS padding: N bytes each equal to N, 1 <= N <= 16
PkcsPad(p) ==
    LET n == BLOCK_SIZE - (Len(p) % BLOCK_SIZE)
    IN  p \o [i \in 1..n |-> n]

\* the encrypted blob: the IV followed by the ciphertext
EncryptFile(k, iv, p) == iv \o CbcEncrypt(k, iv, PkcsPad(p))

\* a blob whose decryption is exactly d, whatever its last bytes are
RawFile(k, iv, d) == iv \o CbcEncrypt(k, iv, d)

----------------------------------------------------------------------------
(* decrypt_file *)

\* lines 48-51: whether AES.new and cipher.decrypt raise nothing: the key is
\* hex, the IV a full block, the data a whole number of blocks
CipherAccepts(k, data) ==
    /\ k \in HexKeys
    /\ Len(PySliceTo(data, IV_LENGTH)) = BLOCK_SIZE
    /\ Len(PySliceFrom(data, IV_LENGTH)) % BLOCK_SIZE = 0

\* lines 48-51: the bytes cipher.decrypt returns when it raises nothing
Decrypted(k, data) ==
    LET iv == PySliceTo(data, IV_LENGTH)
        encrypted_data == PySliceFrom(data, IV_LENGTH)
    IN  CbcDecrypt(FromHex(k), iv, encrypted_data)

\* a wrong padding removal: decrypted.rstrip(bytes([pad_len])), which strips
\* every trailing byte equal to the last one
RECURSIVE StripPaddingRstrip(_)
StripPaddingRstrip(decrypted) ==
    LET n == Len(decrypted)
    IN  IF n >= 2 /\ decrypted[n - 1] = decrypted[n]
        THEN StripPaddingRstrip(SubSeq(decrypted, 1, n - 1))
        ELSE SubSeq(decrypted, 1, n - 1)

\* a wrong padding removal: decrypted[:len(decrypted) - pad_len]
StripPaddingFromLen(decrypted) ==
    LET pad_len == decrypted[Len(decrypted)]
    IN  PySliceTo(decrypted, Len(decrypted) - pad_len)

\* lines 52-53: pad_len = decrypted[-1]; decrypted = decrypted[:-pad_len]
StripPadding(decrypted) ==
    LET pad_len == decrypted[Len(decrypted)]
    IN  PySliceTo(decrypted, 0 - pad_len)

\* what may happen at lines 54-55: both succeed, open() raises, or open()
\* creates (or truncates) the file and write() raises
WriteOutcomes == {"ok", "open raises", "write raises"}

\* decrypt_file(input_path, output_path): [ret, out], out the content of the
\* output path afterwards.  canRead is whether open(input_path) succeeds,
\* canWrite the outcome of lines 54-55; every exception is caught (line 58)
\* and turned into ret = FALSE.
decrypt_file(k, inFile, outFile, canRead, canWrite) ==
    LET failed == [ret |-> FALSE, out |-> outFile]
    IN  IF k = NoKey THEN failed
        ELSE IF ~inFile.present \/ ~canRead THEN failed
        ELSE IF ~CipherAccepts(k, inFile.bytes) THEN failed
        ELSE LET decrypted == Decrypted(k, inFile.bytes)
             IN  IF Len(decrypted) = 0 THEN failed
                 ELSE IF canWrite = "open raises" THEN failed
                 ELSE IF canWrite = "write raises"
                      THEN [ret |-> FALSE, out |-> File(<< >>)]
                 ELSE [ret |-> TRUE, out |-> File(StripPadding(decrypted))]

----------------------------------------------------------------------------
(* The detection filter of analyze_mammogram *)

\* cfg.TEST.NMS = 0.3, in hundredths
NMS_THRESH == 30

\* CONF_THRESH = 0.8, in hundredths
CONF_THRESH == 80

\* cls_ind = 1, the lesion class
cls_ind == 1

\* boxes[:, 4*cls_ind:4*(cls_ind+1)]: column block cls_ind of every row
ClsBoxes(boxes) == [i \in 1..Len(boxes) |-> boxes[i][cls_ind + 1]]

\* scores[:, cls_ind]
ClsScores(scores) == [i \in 1..Len(scores) |-> scores[i][cls_ind + 1]]

\* np.hstack((cls_boxes, cls_scores[:, np.newaxis])).astype(np.float32): rows
\* x1, y1, x2, y2, score (im_detect's values are float32 already, so the cast
\* leaves them as they are)
HStack(cls_boxes, cls_scores) ==
    [i \in 1..Len(cls_boxes) |-> cls_boxes[i] \o << cls_scores[i] >>]

\* det[-1]
Score(det) == det[Len(det)]

Area(b) == Max(b[3] - b[1], 0) * Max(b[4] - b[2], 0)

Intersection(a, b) ==
    Max(Min(a[3], b[3]) - Max(a[1], b[1]), 0)
        * Max(Min(a[4], b[4]) - Max(a[2], b[2]), 0)

\* IoU(a, b) > thresh, thresh in hundredths, without dividing
IoUExceeds(a, b, thresh) ==
    LET inter == Intersection(a, b)
    IN  100 * inter > thresh * (Area(a) + Area(b) - inter)

\* the descending-score orders of the rows in s: a row of highest score
\* first (rows of equal score come in either order), then the rest
RECURSIVE OrdersOf(_, _)
OrdersOf(dets, s) ==
    IF s = {} THEN { << >> }
    ELSE UNION { { << i >> \o t : t \in OrdersOf(dets, s \ {i}) } :
                    i \in { j \in s : \A k \in s : Score(dets[j]) >= Score(dets[k]) } }

\* the orders nms may process dets in: sorted by score, descending
ScoreOrders(dets) == OrdersOf(dets, 1..Len(dets))

\* greedy suppression: keep the first remaining row, discard the remaining
\* rows whose IoU with it exceeds thresh, repeat
RECURSIVE Greedy(_, _, _, _)
Greedy(dets, rest, kept, thresh) ==
    IF rest = << >> THEN kept
    ELSE LET i == Head(rest)
             Survives(j) == ~IoUExceeds(dets[i], dets[j], thresh)
         IN  Greedy(dets, SelectSeq(Tail(rest), Survives), Append(kept, i), thresh)

\* nms(dets, thresh): the kept row indices, in the order they were kept
nms(dets, o, thresh) == Greedy(dets, o, << >>, thresh)

\* a wrong line 102: dets[sorted(keep), :], the kept rows in detector order
TakeRowsSorted(dets, keep) ==
    LET kept == { keep[i] : i \in 1..Len(keep) }
        InKeep(j) == j \in kept
        idx == SelectSeq([j \in 1..Len(dets) |-> j], InKeep)
    IN  [i \in 1..Len(idx) |-> dets[idx[i]]]

\* line 102 left out: dets stays the whole matrix
TakeRowsAll(dets, keep) == dets

\* dets = dets[keep, :]
TakeRows(dets, keep) == [i \in 1..Len(keep) |-> dets[keep[i]]]

\* lines 104-107: the dict built for one det
Detection(det) ==
    [ bbox |-> [x_min |-> det[1], y_min |-> det[2], x_max |-> det[3], y_max |-> det[4]],
      confidence |-> Score(det) ]

\* a wrong line 108: the score compared with cfg.TEST.NMS
PassesNmsThreshold(det) == Score(det) >= NMS_THRESH

\* line 108: the condition of the comprehension
PassesThreshold(det) == Score(det) >= CONF_THRESH

\* lines 103-109: [ {...} for det in dets if det[-1] >= CONF_THRESH ]
ResultsOf(dets) ==
    LET kept == SelectSeq(dets, PassesThreshold)
    IN  [i \in 1..Len(kept) |-> Detection(kept[i])]

\* lines 98-100: the dets matrix built from im_detect's output
DetsOf(out) == HStack(ClsBoxes(out.boxes), ClsScores(out.scores))

\* lines 97-111 of analyze_mammogram, from im_detect's output on
analyze_mammogram(out, o) ==
    LET dets == DetsOf(out)
        keep == nms(dets, o, NMS_THRESH)
    IN  ResultsOf(TakeRows(dets, keep))

----------------------------------------------------------------------------
(* The environment: the files, keys and detector outputs a run may meet *)

EnvKeys == {NoKey, BadHexKey} \cup HexKeys

\* the IV the encrypting side prepends
SomeIV == [i \in 1..IV_LENGTH |-> (17 * i) % 256]

\* byte strings base + step * i: all zero, all 16 (looks like padding), a ramp
Fills == { << 0, 0 >>, << 16, 0 >>, << 7, 1 >> }

Pattern(len, f) == [i \in 1..len |-> (f[1] + f[2] * i) % 256]

PlainTexts == { Pattern(len, f) : len \in 0..MaxPlainLen, f \in Fills }

\* last bytes of a decryption that is not well-formed padding, and some that are
LastBytes == {0, 1, 2, 15, 16, 17, 31, 32, 33, 48, 128, 255}

\* whole blocks ending in the byte n
RawBlocks ==
    { [i \in 1..(m * BLOCK_SIZE) |-> IF i = m * BLOCK_SIZE THEN n ELSE (7 + i) % 256] :
        m \in 1..MaxRawBlocks, n \in LastBytes }

PkcsInput(k, p) ==
    [file |-> File(EncryptFile(FromHex(k), SomeIV, p)),
     source |-> [kind |-> "pkcs", encKey |-> k, plain |-> p]]

RawInput(k, d) ==
    [file |-> File(RawFile(FromHex(k), SomeIV, d)),
     source |-> [kind |-> "raw", encKey |-> k, plain |-> d]]

OtherInput(f) == [file |-> f, source |-> [kind |-> "other", encKey |-> "", plain |-> << >>]]

\* files that are no encrypted blob: absent, shorter than an IV, an IV alone
\* (empty ciphertext), an IV and part of a block
BrokenInputs ==
    { OtherInput(NoFile), OtherInput(File(<< >>)), OtherInput(File(SubSeq(SomeIV, 1, 5))),
      OtherInput(File(SomeIV)), OtherInput(File(SomeIV \o << 1, 2, 3 >>)) }

DecryptInputs ==
    { PkcsInput(k, p) : k \in HexKeys, p \in PlainTexts }
        \cup { RawInput(k, d) : k \in HexKeys, d \in RawBlocks }
        \cup BrokenInputs

\* the inputs of a whole run: two encrypted images, two blobs with bad padding
MainInputs ==
    { PkcsInput("25", Pattern(5, << 7, 1 >>)), PkcsInput("25", Pattern(16, << 7, 1 >>)),
      RawInput("25", Pattern(16, << 0, 0 >>)), RawInput("25", Pattern(16, << 200, 0 >>)) }
        \cup BrokenInputs

\* a file left at --output by an earlier run
StaleFile == File(<< 9, 9 >>)

\* lesion-class boxes x1, y1, x2, y2: IoU(A, B) = IoU(B, C) = 1/2,
\* IoU(A, C) = 1/5, IoU(D, E) = 3/10 exactly, IoU(A, D) = IoU(B, D) =
\* IoU(C, D) = 1/2, IoU(B, E) = 1/9, IoU(C, E) = 1/4, A and E do not overlap
BoxA == << 0, 0, 3, 1 >>

BoxB == << 1, 0, 4, 1 >>

BoxC == << 2, 0, 5, 1 >>

BoxD == << 0, 0, 6, 1 >>

BoxE == << 3, 0, 10, 1 >>

LesionBoxes == { BoxA, BoxB, BoxC, BoxD, BoxE }

\* the box im_detect reports for the background class of every proposal
BackgroundBox == << 50, 50, 60, 60 >>

\* lesion scores 0.79, 0.8, 0.95
LesionScores == { 79, 80, 95 }

\* one proposal: row i of boxes and of scores, background class first
Proposals ==
    { [boxes |-> << BackgroundBox, b >>, scores |-> << 100 - s, s >>] :
        b \in LesionBoxes, s \in LesionScores }

\* im_detect's return values for the proposals r: one row of scores and one
\* row of boxes per proposal
DetectorOutput(r) ==
    [scores |-> [i \in 1..Len(r) |-> r[i].scores], boxes |-> [i \in 1..Len(r) |-> r[i].boxes]]

NoDetOut == [scores |-> << >>, boxes |-> << >>]

----------------------------------------------------------------------------
(* main *)

\* isinstance(e, Exception): SystemExit derives from BaseException only
IsException(e) == e \in {"Exception", "OSError"}

\* a wrong line 138: a bare "except:", which catches SystemExit as well
BareExceptCatches(e) == TRUE

\* line 138: whether "except Exception" catches e
HandlerCatches(e) == IsException(e)

\* lines 129-134
SuccessRecord(res) == [status |-> "success", detections |-> res, image_path |-> "--input"]

\* lines 139-144
ErrorRecord(e) == [status |-> "error", message |-> e, image_path |-> "--input"]

\* preprocess_image can only read an image from a file with content
Readable(f) == f.present /\ Len(f.bytes) > 0

\* line 126: decrypt_file is called; False makes sys.exit(1) raise SystemExit
MainDecrypt ==
    /\ pc = "decrypt"
    /\ \E canRead \in BOOLEAN, canWrite \in WriteOutcomes :
          LET r == decrypt_file(ENCRYPTION_KEY, inputFile, outputFile, canRead, canWrite)
          IN  /\ outputFile' = r.out
              /\ decryptRet' = IF r.ret THEN "True" ELSE "False"
              /\ ioFault' = ~(canRead /\ canWrite = "ok")
              /\ raised' = IF r.ret THEN "none" ELSE "SystemExit"
              /\ pc' = IF r.ret THEN "analyze" ELSE "except"
    /\ calls' = calls \cup {"decrypt_file"}
    /\ UNCHANGED << ENCRYPTION_KEY, inputFile, source, detOut, order, results, stdout, exitCode >>

\* line 128: analyze_mammogram raises (preprocess_image, load_net or im_detect
\* failed; the exception is logged and re-raised at lines 112-114)
MainAnalyzeRaises ==
    /\ pc = "analyze"
    /\ raised' = "Exception"
    /\ pc' = "except"
    /\ calls' = calls \cup {"analyze_mammogram"}
    /\ UNCHANGED << ENCRYPTION_KEY, inputFile, outputFile, source, ioFault, decryptRet,
                    detOut, order, results, stdout, exitCode >>

\* lines 94-96: preprocess_image, load_net and im_detect succeed; im_detect
\* returns scores and boxes for at most n proposals
im_detect(n) ==
    /\ pc = "analyze"
    /\ Readable(outputFile)
    /\ \E m \in 0..n : \E r \in [1..m -> Proposals] : detOut' = DetectorOutput(r)
    /\ pc' = "filter"
    /\ calls' = calls \cup {"analyze_mammogram"}
    /\ UNCHANGED << ENCRYPTION_KEY, inputFile, outputFile, source, ioFault, decryptRet,
                    order, results, raised, stdout, exitCode >>

MainImDetect == im_detect(MaxMainBoxes)

\* lines 97-111: nms takes the rows in one of the descending-score orders and
\* analyze_mammogram returns the filtered detections
MainFilter ==
    /\ pc = "filter"
    /\ \E o \in ScoreOrders(DetsOf(detOut)) :
          /\ order' = o
          /\ results' = analyze_mammogram(detOut, o)
    /\ pc' = "print"
    /\ UNCHANGED << ENCRYPTION_KEY, inputFile, outputFile, source, ioFault, decryptRet,
                    detOut, raised, stdout, calls, exitCode >>

\* lines 129-135: the success record is printed
MainPrintSuccess ==
    /\ pc = "print"
    /\ stdout' = Append(stdout, SuccessRecord(results))
    /\ pc' = "remove"
    /\ UNCHANGED << ENCRYPTION_KEY, inputFile, outputFile, source, ioFault, decryptRet,
                    detOut, order, results, raised, calls, exitCode >>

\* line 136: os.remove(args.output) deletes the file, or raises OSError and
\* leaves it (no permission, file in use)
MainRemove ==
    /\ pc = "remove"
    /\ \E removed \in BOOLEAN :
          /\ outputFile' = IF removed THEN NoFile ELSE outputFile
          /\ raised' = IF removed THEN "none" ELSE "OSError"
          /\ pc' = IF removed THEN "return" ELSE "except"
    /\ calls' = calls \cup {"os.remove"}
    /\ UNCHANGED << ENCRYPTION_KEY, inputFile, source, ioFault, decryptRet, detOut, order,
                    results, stdout, exitCode >>

\* lines 138-146: the handler prints the error record and exits with 1
MainExcept ==
    /\ pc = "except"
    /\ HandlerCatches(raised)
    /\ stdout' = Append(stdout, ErrorRecord(raised))
    /\ exitCode' = "1"
    /\ pc' = "exit"
    /\ UNCHANGED << ENCRYPTION_KEY, inputFile, outputFile, source, ioFault, decryptRet,
                    detOut, order, results, raised, calls >>

\* an exception the handler does not catch leaves main: SystemExit(1) ends
\* the process with status 1
MainUncaught ==
    /\ pc = "except"
    /\ ~HandlerCatches(raised)
    /\ exitCode' = "1"
    /\ pc' = "exit"
    /\ UNCHANGED << ENCRYPTION_KEY, inputFile, outputFile, source, ioFault, decryptRet,
                    detOut, order, results, raised, stdout, calls >>

\* main returns after line 137: the interpreter exits with 0
MainReturn ==
    /\ pc = "return"
    /\ exitCode' = "0"
    /\ pc' = "exit"
    /\ UNCHANGED << ENCRYPTION_KEY, inputFile, outputFile, source, ioFault, decryptRet,
                    detOut, order, results, raised, stdout, calls >>

\* the state all runs start from, but for the inputs
Fresh ==
    /\ ioFault = FALSE
    /\ decryptRet = "none"
    /\ detOut = NoDetOut
    /\ order = << >>
    /\ results = << >>
    /\ raised = "none"
    /\ stdout = << >>
    /\ calls = {}
    /\ exitCode = "none"

Init ==
    /\ pc = "decrypt"
    /\ ENCRYPTION_KEY \in EnvKeys
    /\ \E in \in MainInputs : inputFile = in.file /\ source = in.source
    /\ outputFile \in {NoFile, StaleFile}
    /\ Fresh

Next ==
    \/ MainDecrypt
    \/ MainAnalyzeRaises
    \/ MainImDetect
    \/ MainFilter
    \/ MainPrintSuccess
    \/ MainRemove
    \/ MainExcept
    \/ MainUncaught
    \/ MainReturn

Spec == Init /\ [][Next]_vars

\* decrypt_file alone, over every input file
InitDecrypt ==
    /\ pc = "decrypt"
    /\ ENCRYPTION_KEY \in EnvKeys
    /\ \E in \in DecryptInputs : inputFile = in.file /\ source = in.source
    /\ outputFile = NoFile
    /\ Fresh

NextDecrypt == MainDecrypt

SpecDecrypt == InitDecrypt /\ [][NextDecrypt]_vars

\* the detection filter alone, over every detector output
InitFilter ==
    /\ pc = "analyze"
    /\ ENCRYPTION_KEY = "25"
    /\ inputFile = NoFile
    /\ source = OtherInput(NoFile).source
    /\ outputFile = StaleFile
    /\ Fresh

FilterImDetect == im_detect(MaxBoxes)

NextFilter == FilterImDetect \/ MainFilter

SpecFilter == InitFilter /\ [][NextFilter]_vars

----------------------------------------------------------------------------
(* Properties *)

Terminal == pc = "exit"

Printed(status) == \E i \in 1..Len(stdout) : stdout[i].status = status

HasDetections(rec) == "detections" \in DOMAIN rec

\* C1: in every terminal state, a printed success record means the plaintext
\* file at --output is gone, and a printed error record means it is still there.
C1_CleanupInvariant ==
    Terminal =>
        /\ Printed("success") => ~outputFile.present
        /\ Printed("error") => outputFile.present

\* C2: a run that printed a success record exits with 0, and a run in which
\* decryption or analysis failed exits with 1.
C2_ExitStatus ==
    Terminal =>
        /\ Printed("success") => exitCode = "0"
        /\ (decryptRet = "False" \/ raised = "Exception") => exitCode = "1"

\* C3: in every terminal state main has printed exactly one JSON record.
C3_ExactlyOneRecord == Terminal => Len(stdout) = 1

\* C4: once decrypt_file has returned False, nothing is ever printed,
\* analyze_mammogram and os.remove are never called, the SystemExit raised by
\* sys.exit(1) passes the handler and the run ends with status 1; and the
\* failing call deletes no file.
C4_DecryptFailure ==
    /\ [](decryptRet = "False" =>
            /\ stdout = << >>
            /\ calls = {"decrypt_file"}
            /\ raised = "SystemExit"
            /\ pc \in {"except", "exit"}
            /\ Terminal => exitCode = "1")
    /\ [][decryptRet' = "False" =>
            /\ inputFile' = inputFile
            /\ outputFile.present => outputFile'.present]_vars

\* C4's case: a run that ended after decrypt_file returned False on a
\* configured key (the stale file at --output still there)
C4_Witness ==
    /\ Terminal
    /\ decryptRet = "False"
    /\ ENCRYPTION_KEY \in HexKeys
    /\ outputFile = StaleFile

\* C5: what a run prints is one success record carrying all the detections
\* or one error record carrying none; never a record with detections and an
\* error as well.
C5_NoPartialResults ==
    /\ \A i \in 1..Len(stdout) :
          \/ stdout[i] = SuccessRecord(results)
          \/ stdout[i].status = "error" /\ ~HasDetections(stdout[i])
    /\ Len(stdout) <= 1
    /\ ~(Printed("error") /\ \E i \in 1..Len(stdout) : HasDetections(stdout[i]))

\* row j of im_detect's output for the lesion class (class index 1, the
\* second block of columns): x1, y1, x2, y2, score
LesionRow(j) == detOut.boxes[j][2] \o << detOut.scores[j][2] >>

BoxOf(d) == << d.bbox.x_min, d.bbox.y_min, d.bbox.x_max, d.bbox.y_max >>

Returned == pc = "print"

\* Scenario C: two lesion boxes of IoU exactly 1/2, both at 0.8 or more, the
\* first scoring higher: only the first is returned
ScenarioC ==
    ( /\ Len(detOut.scores) = 2
      /\ 2 * Intersection(LesionRow(1), LesionRow(2))
            = Area(LesionRow(1)) + Area(LesionRow(2))
                  - Intersection(LesionRow(1), LesionRow(2))
      /\ Score(LesionRow(2)) >= 80
      /\ Score(LesionRow(1)) > Score(LesionRow(2)) )
        => results = << Detection(LesionRow(1)) >>

\* Scenario D: a single box at 0.79 yields no detection
ScenarioD ==
    (Len(detOut.scores) = 1 /\ Score(LesionRow(1)) = 79) => results = << >>

\* C6: every returned detection has confidence >= 0.8 and is a lesion-class
\* row of the detector's output, no two returned boxes have IoU > 0.3, and
\* scenarios C and D come out as stated.
C6_DetectionFilter ==
    Returned =>
        /\ \A i \in 1..Len(results) :
              /\ results[i].confidence >= 80
              /\ \E j \in 1..Len(detOut.scores) : results[i] = Detection(LesionRow(j))
        /\ \A i, j \in 1..Len(results) :
              i # j => ~IoUExceeds(BoxOf(results[i]), BoxOf(results[j]), 30)
        /\ ScenarioC
        /\ ScenarioD

\* C6's case: of three proposals one is returned, one at 0.8 or more was
\* suppressed by it, and one below 0.8 that overlaps nothing too much was
\* dropped by the threshold
C6_Witness ==
    /\ Returned
    /\ Len(detOut.scores) = 3
    /\ Len(results) = 1
    /\ \E j, k \in 1..3 :
          /\ j # k
          /\ Score(LesionRow(j)) >= 80
          /\ results[1] # Detection(LesionRow(j))
          /\ IoUExceeds(BoxOf(results[1]), LesionRow(j), 30)
          /\ Score(LesionRow(k)) = 79
          /\ ~IoUExceeds(BoxOf(results[1]), LesionRow(k), 30)

\* the rows nms kept, in kept order, restricted to those at 0.8 or more
KeptAboveThreshold ==
    LET n == Len(detOut.scores)
        rows == [j \in 1..n |-> LesionRow(j)]
        keep == nms(rows, order, 30)
        Above(j) == Score(rows[j]) >= 80
        idx == SelectSeq(keep, Above)
    IN  [i \in 1..Len(idx) |-> Detection(rows[idx[i]])]

\* C7: the returned detections are in descending order of confidence: they
\* are the rows nms kept, in the order it kept them, less those below 0.8.
C7_Ordering ==
    Returned =>
        /\ \A i \in 1..Len(results) :
              i < Len(results) => results[i].confidence >= results[i + 1].confidence
        /\ results = KeptAboveThreshold

\* C7's case: two detections returned, the higher-scoring one first although
\* the detector reported it after the other, with a row below 0.8 between them
C7_Witness ==
    /\ Returned
    /\ Len(detOut.scores) = 3
    /\ Len(results) = 2
    /\ results[1].confidence > results[2].confidence
    /\ results[1] = Detection(LesionRow(3))
    /\ results[2] = Detection(LesionRow(1))
    /\ Score(LesionRow(2)) = 79

\* C8: a file made of the IV and the CBC encryption of a PKCS-padded plaintext
\* decrypts, under the same key and with no I/O failure, to that plaintext.
C8_RoundTrip ==
    ( /\ decryptRet # "none"
      /\ source.kind = "pkcs"
      /\ ENCRYPTION_KEY = source.encKey
      /\ ~ioFault )
        => decryptRet = "True" /\ outputFile = File(source.plain)

\* C8's case: a plaintext of exactly two blocks, ending in bytes equal to the
\* padding byte, came back
C8_Witness ==
    /\ decryptRet = "True"
    /\ source.kind = "pkcs"
    /\ ENCRYPTION_KEY = source.encKey
    /\ Len(source.plain) = 2 * BLOCK_SIZE
    /\ source.plain[Len(source.plain)] = 16
    /\ outputFile = File(source.plain)

\* C8's case for the empty plaintext
C8_WitnessEmpty ==
    /\ decryptRet = "True"
    /\ source.kind = "pkcs"
    /\ source.plain = << >>
    /\ outputFile = File(<< >>)

\* the bytes cipher.decrypt returned in the call that wrote the output
DecryptedBytes == Decrypted(ENCRYPTION_KEY, inputFile.bytes)

LastByte(d) == d[Len(d)]

\* C9 as stated: whatever the last byte N of the decrypted bytes D, the file
\* written is D without its N trailing bytes, of length len(D) - N.
C9_StripsExactlyN ==
    decryptRet = "True" =>
        /\ outputFile.bytes
              = SubSeq(DecryptedBytes, 1, Len(DecryptedBytes) - LastByte(DecryptedBytes))
        /\ Len(outputFile.bytes) = Len(DecryptedBytes) - LastByte(DecryptedBytes)

\* C9 amended: for 1 <= N <= len(D) the file written is D without its N
\* trailing bytes, whatever those bytes are; for N = 0 and for N > len(D) the
\* file written is empty.
C9_StripsUpToLength ==
    decryptRet = "True" =>
        LET d == DecryptedBytes
            n == LastByte(d)
        IN  /\ (1 <= n /\ n <= Len(d)) =>
                  /\ outputFile.bytes = SubSeq(d, 1, Len(d) - n)
                  /\ Len(outputFile.bytes) = Len(d) - n
            /\ (n = 0 \/ n > Len(d)) => outputFile.bytes = << >>

\* C9's case: two blocks ending in the byte 2 after a different byte (no
\* well-formed padding) lost exactly their two last bytes
C9_Witness ==
    /\ decryptRet = "True"
    /\ source.kind = "raw"
    /\ Len(DecryptedBytes) = 2 * BLOCK_SIZE
    /\ LastByte(DecryptedBytes) = 2
    /\ DecryptedBytes[Len(DecryptedBytes) - 1] # 2
    /\ Len(outputFile.bytes) = 2 * BLOCK_SIZE - 2

\* C9's cases N = 0 and N > len(D)
C9_WitnessZero ==
    /\ decryptRet = "True"
    /\ LastByte(DecryptedBytes) = 0
    /\ outputFile.bytes = << >>

\* the threshold applied first: the rows at 0.8 or more, in detector order,
\* then nms over them in the order it takes on the whole matrix
ThresholdThenNms ==
    LET n == Len(detOut.scores)
        Above(j) == Score(LesionRow(j)) >= 80
        idx == SelectSeq([j \in 1..n |-> j], Above)
        rows == [i \in 1..Len(idx) |-> LesionRow(idx[i])]
        Pos(j) == CHOOSE i \in 1..Len(idx) : idx[i] = j
        sub == SelectSeq(order, Above)
        o == [i \in 1..Len(sub) |-> Pos(sub[i])]
        keep == nms(rows, o, 30)
    IN  [i \in 1..Len(keep) |-> Detection(rows[keep[i]])]

\* C10: nms followed by the 0.8 threshold returns what the threshold followed
\* by nms returns; a row at 0.8 or more that is not returned exceeds IoU 0.3
\* with a returned row, which is at 0.8 or more.
C10_StagesCommute ==
    Returned =>
        /\ results = ThresholdThenNms
        /\ \A j \in 1..Len(detOut.scores) :
              Score(LesionRow(j)) >= 80 =>
                  \/ \E i \in 1..Len(results) : results[i] = Detection(LesionRow(j))
                  \/ \E i \in 1..Len(results) :
                        /\ results[i].confidence >= Score(LesionRow(j))
                        /\ IoUExceeds(BoxOf(results[i]), LesionRow(j), 30)

\* C10's case: a row at 0.95 suppresses one at 0.8, which overlaps a row at 0.79 that the
\* row at 0.95 does not suppress
C10_Witness ==
    /\ Returned
    /\ Len(detOut.scores) = 3
    /\ \E a, b, c \in 1..3 :
          /\ Score(LesionRow(a)) = 95 /\ Score(LesionRow(b)) = 80
          /\ Score(LesionRow(c)) = 79
          /\ IoUExceeds(LesionRow(a), LesionRow(b), 30)
          /\ IoUExceeds(LesionRow(b), LesionRow(c), 30)
          /\ ~IoUExceeds(LesionRow(a), LesionRow(c), 30)
          /\ results = << Detection(LesionRow(a)) >>

====
